---- MODULE Spec2Model ----
(***************************************************************************)
(* A model of the navigation panel of react-explorer:                      *)
(*   - the Alerter of src/src/components/AppAlert.tsx (the Confirmation    *)
(*     Queue), with the promise reactions and the microtask queue that     *)
(*     decide the order in which its async show() calls continue;          *)
(*   - the LeftPanel of src/src/components/LeftPanel.tsx (the Tree         *)
(*     Synchronizer, the Selection Tracker and the Navigation Router).     *)
(***************************************************************************)
EXTENDS Integers, Sequences, FiniteSets, TLC

(***************************************************************************)
(* Bounds of the model.                                                    *)
(***************************************************************************)
\* the number of show() calls submitted to the Alerter
MaxCalls == 3

Calls == 1..MaxCalls
\* the value of a null reference (Alerter.defer = null)
NoCall == 0
\* an option that a show() call's options object does not carry
Absent == "absent"
\* the values a call may pass for options.intent
Intents == {Absent, "danger"}
\* the messages a call may pass
Messages == {"m1", "m2"}

\* the navigation failures (sync or async) in one run of the router
MaxFailures == 1

\* the two panes of the window (ViewState.viewId); the first one is the pane
\* shown when the window is not split
Views == {0, 1}
\* the directories a pane may show and a favorite may point to
Paths == {"/a", "/b"}
\* nodeData of a group header node: the constructor sets none
Undefined == "undefined"
\* no navigation in progress
NoNav == "none"
\* the failures a navigation may end with (human text, machine code)
Errors == {[message |-> "permission denied", code |-> "EACCES"],
           [message |-> "no such directory", code |-> "ENOENT"]}
\* nothing thrown
NoError == [message |-> "", code |-> ""]

\* the entries of the Favorites Source
HomeDir == [label |-> "HOME_DIR", path |-> "/a"]
DocsDir == [label |-> "DOCS_DIR", path |-> "/b"]
Data == [label |-> "Data", path |-> "/a", icon |-> "drive"]
Backup == [label |-> "Backup", path |-> "/b", icon |-> "usb"]
Ubuntu == [label |-> "Ubuntu", path |-> "/b", icon |-> "linux"]
\* the lists each collection of the Favorites Source may hold (an entry is
\* unique by path within its collection): the system shortcuts come all at
\* once, the user's places and the distributions one by one
ShortcutLists == {<<>>, <<HomeDir, DocsDir>>}
PlaceLists == {<<>>, <<Data>>, <<Backup, Data>>}
DistributionLists == {<<>>, <<Ubuntu>>}
\* the display languages
Languages == {"en", "fr"}

VARIABLES
    \* ---- Alerter (AppAlert.tsx) ----
    defer,       \* Alerter.defer: NoCall (null), or the call whose Deferred is in flight
    isOpen,      \* Alerter.state.isOpen
    stMessage,   \* Alerter.state.message
    stIntent,    \* Alerter.state.intent ("unset" until a call sets it)
    nCalls,      \* the number of show() calls made so far; the next call is nCalls + 1
    callArgs,    \* the (message, options) each call was made with
    callPc,      \* where each call is: unsubmitted, waiting, open, closed, resolved
    waitOn,      \* the call whose Deferred a waiting call awaits
    waited,      \* every prompt a call has awaited so far (history)
    depth,       \* how many times a call has re-issued itself (line 53)
    epoch,       \* the number of prompts closed when the call was submitted (history)
    closes,      \* the number of onClose events so far (history)
    reactions,   \* per Deferred: the reactions registered on its promise, in order
    microtasks,  \* the job queue of the event loop (promise jobs), in order
    callerRunning, \* the code now running is a caller of show(), which may call it again
    \* ---- View Host (appState, winStates[0], its views and their caches) ----
    explorerActive, \* appState.getActiveCache() returns a cache (not null)
    splitView,   \* winState.splitView
    activeView,  \* the viewId of the active view
    cachePath,   \* per view: the path of its visible cache
    navPending,  \* per view: the target of the navigation in progress, or NoNav
    \* ---- Navigation Router (LeftPanel.onNodeClick / openFavorite) ----
    isMac,       \* utils/platform isMac
    lastClick,   \* what the last node click found and did (history)
    alerts,      \* the messages onNodeClick submitted to AppAlert.show (history)
    failed,      \* the errors of the navigation calls that failed, in order (history)
    pressed,     \* the node and the mouse event of a click not yet handled, or NoPress
    \* ---- Favorites Source (appState.favoritesState) and i18next ----
    shortcuts,   \* favoritesState.shortcuts
    places,      \* favoritesState.places
    distributions, \* favoritesState.distributions
    lang,        \* the active language of i18next
    \* ---- Tree Synchronizer and Selection Tracker (LeftPanelClass) ----
    nodes,       \* this.state.nodes: the groups, each with its childNodes
    showDistributions, \* this.showDistributions
    probe,       \* the hasWSL() call: notCalled, pending, true, false, failed
    hide,        \* this.props.hide
    phase        \* constructed (not rendered yet), mounted, unmounted

alertVars == <<defer, isOpen, stMessage, stIntent, nCalls, callArgs, callPc,
               waitOn, waited, depth, epoch, closes, reactions, microtasks,
               callerRunning>>

hostVars == <<explorerActive, splitView, activeView, cachePath, navPending>>

routerVars == <<isMac, lastClick, alerts, failed, pressed>>

favoritesVars == <<shortcuts, places, distributions, lang>>

treeVars == <<nodes, showDistributions, probe, hide, phase>>

vars == <<alertVars, hostVars, routerVars, favoritesVars, treeVars>>

\* what the Alerter never touches
notAlertVars == <<hostVars, routerVars, favoritesVars, treeVars>>

\* what the Navigation Router never touches
notRouterVars == <<alertVars, favoritesVars, treeVars>>

(***************************************************************************)
(* Alerter: AppAlert.tsx lines 13-68.                                      *)
(*                                                                         *)
(* show() is an async function.  `return this.defer.promise` resolves the  *)
(* promise of the async function with a promise: the adoption is a job     *)
(* (NewPromiseResolveThenableJob) that, when it runs, registers a reaction *)
(* on the Deferred's promise.  `await this.defer.promise` registers its    *)
(* reaction at once.  Resolving the Deferred queues one job per reaction,  *)
(* in registration order.  A call that re-issued itself k times returns a  *)
(* chain of k + 1 promises, each adopted by the one before: the promise    *)
(* the caller holds is fulfilled k + 1 jobs after the Deferred's reaction  *)
(* runs.  The jobs that only link two promises of one chain run before any *)
(* onClose and order nothing else; they are not queued in the model.       *)
(*                                                                         *)
(* The callers of show() run either in a task of their own (a UI event, or *)
(* the completion of some other work: no promise job of the Alerter is     *)
(* queued then) or as the continuation of a caller whose promise was       *)
(* fulfilled (a job queued by that fulfilment).  Code that has called      *)
(* show() may call it again before any job runs.                           *)
(***************************************************************************)

\* Alerter constructor, lines 14-23
AlertInit ==
    /\ defer = NoCall
    /\ isOpen = FALSE
    /\ stMessage = ""
    /\ stIntent = "unset"
    /\ nCalls = 0
    /\ callArgs = [c \in Calls |-> [message |-> "", intent |-> Absent]]
    /\ callPc = [c \in Calls |-> "unsubmitted"]
    /\ waitOn = [c \in Calls |-> NoCall]
    /\ waited = [c \in Calls |-> {}]
    /\ depth = [c \in Calls |-> 0]
    /\ epoch = [c \in Calls |-> 0]
    /\ closes = 0
    /\ reactions = [c \in Calls |-> <<>>]
    /\ microtasks = <<>>
    /\ callerRunning = FALSE

\* whether the Deferred created by call d has been resolved
Settled(d) == callPc[d] \in {"closed", "resolved"}

\* line 44, the mutant: show() never looks at the in-flight marker
SlotFreeAlways == TRUE

\* line 44: if (!this.defer)
SlotFree == defer = NoCall

\* line 47, setState({ message, ...options, isOpen: true, onClose }): the
\* state keeps every key the new options do not set
MergedIntent(c) ==
    IF callArgs'[c].intent = Absent THEN stIntent ELSE callArgs'[c].intent

\* lines 44-54, the body of show() run for call c (first call or re-issue)
ShowBody(c, jobs) ==
    IF SlotFree
    THEN \* lines 45-49
         /\ defer' = c
         /\ isOpen' = TRUE
         /\ stMessage' = callArgs'[c].message
         /\ stIntent' = MergedIntent(c)
         /\ callPc' = [callPc EXCEPT ![c] = "open"]
         /\ microtasks' = Append(jobs, [kind |-> "thenable", call |-> c, level |-> 0])
         /\ UNCHANGED <<waitOn, waited, reactions>>
    ELSE \* lines 51-53: await this.defer.promise
         /\ callPc' = [callPc EXCEPT ![c] = "waiting"]
         /\ waitOn' = [waitOn EXCEPT ![c] = defer]
         /\ waited' = [waited EXCEPT ![c] = @ \cup {defer}]
         /\ IF Settled(defer)
            THEN /\ microtasks' = Append(jobs, [kind |-> "resume", call |-> c, level |-> 0])
                 /\ UNCHANGED reactions
            ELSE /\ reactions' = [reactions EXCEPT ![defer] =
                                    Append(@, [kind |-> "resume", call |-> c])]
                 /\ microtasks' = jobs
         /\ UNCHANGED <<defer, isOpen, stMessage, stIntent>>

\* lines 43-55 and 72-76: a caller calls AppAlert.show(message, options)
Show(m, i) ==
    /\ nCalls < MaxCalls
    /\ microtasks = <<>> \/ callerRunning
    /\ callerRunning' = TRUE
    /\ LET c == nCalls + 1 IN
       /\ nCalls' = c
       /\ callArgs' = [callArgs EXCEPT ![c] = [message |-> m, intent |-> i]]
       /\ epoch' = [epoch EXCEPT ![c] = closes]
       /\ ShowBody(c, microtasks)
    /\ UNCHANGED <<depth, closes, notAlertVars>>

\* the job a reaction of a resolved Deferred becomes
JobOf(r) ==
    IF r.kind = "resume"
    THEN [kind |-> "resume", call |-> r.call, level |-> 0]
    ELSE [kind |-> "settle", call |-> r.call, level |-> depth[r.call]]

\* lines 37-38: const defer = this.defer; this.defer = null
DeferAfterClose == NoCall

\* line 40, the mutant: the Deferred is never resolved
NoJobs(d) == <<>>

\* line 40, the mutant: the reactions run last registered first
ResolveJobsReversed(d) ==
    [k \in 1..Len(reactions[d]) |-> JobOf(reactions[d][Len(reactions[d]) + 1 - k])]

\* line 40, defer.resolve(res): one job per reaction, in registration order
ResolveJobs(d) == [k \in 1..Len(reactions[d]) |-> JobOf(reactions[d][k])]

\* lines 32-41: the user answers the open prompt (a UI event: it is handled
\* when no promise job is left)
OnClose ==
    /\ isOpen
    /\ defer # NoCall
    /\ microtasks = <<>>
    /\ isOpen' = FALSE
    /\ defer' = DeferAfterClose
    /\ callPc' = [callPc EXCEPT ![defer] = "closed"]
    /\ microtasks' = ResolveJobs(defer)
    /\ reactions' = [reactions EXCEPT ![defer] = <<>>]
    /\ closes' = closes + 1
    /\ callerRunning' = FALSE
    /\ UNCHANGED <<stMessage, stIntent, nCalls, callArgs, waitOn, waited, depth, epoch,
                   notAlertVars>>

\* line 49, return this.defer.promise: the adoption job registers the
\* reaction that settles the call's promise on its Deferred
RunThenable(j, rest) ==
    /\ j.kind = "thenable"
    /\ IF Settled(j.call)
       THEN /\ microtasks' = Append(rest, [kind |-> "settle", call |-> j.call,
                                           level |-> depth[j.call]])
            /\ UNCHANGED reactions
       ELSE /\ reactions' = [reactions EXCEPT ![j.call] =
                                Append(@, [kind |-> "settle", call |-> j.call])]
            /\ microtasks' = rest
    /\ callerRunning' = FALSE
    /\ UNCHANGED <<defer, isOpen, stMessage, stIntent, nCalls, callArgs, callPc,
                   waitOn, waited, depth, epoch, closes>>

\* lines 52-53: the awaited promise is resolved, the call re-issues itself
RunResume(j, rest) ==
    /\ j.kind = "resume"
    /\ depth' = [depth EXCEPT ![j.call] = @ + 1]
    /\ callArgs' = callArgs
    /\ ShowBody(j.call, rest)
    /\ callerRunning' = FALSE
    /\ UNCHANGED <<nCalls, epoch, closes>>

\* one promise of the chain a call returned is fulfilled; level 0 is the
\* promise the caller holds, whose fulfilment queues the caller's continuation
RunSettle(j, rest) ==
    /\ j.kind = "settle"
    /\ IF j.level = 0
       THEN /\ callPc' = [callPc EXCEPT ![j.call] = "resolved"]
            /\ microtasks' = Append(rest, [j EXCEPT !.kind = "continue"])
       ELSE /\ microtasks' = Append(rest, [j EXCEPT !.level = @ - 1])
            /\ UNCHANGED callPc
    /\ callerRunning' = FALSE
    /\ UNCHANGED <<defer, isOpen, stMessage, stIntent, nCalls, callArgs,
                   waitOn, waited, depth, epoch, closes, reactions>>

\* the continuation of a caller whose promise was fulfilled starts to run
RunContinue(j, rest) ==
    /\ j.kind = "continue"
    /\ microtasks' = rest
    /\ callerRunning' = TRUE
    /\ UNCHANGED <<defer, isOpen, stMessage, stIntent, nCalls, callArgs, callPc,
                   waitOn, waited, depth, epoch, closes, reactions>>

\* the event loop runs the first job of the queue
RunMicrotask ==
    /\ microtasks # <<>>
    /\ LET j == Head(microtasks)
           rest == Tail(microtasks)
       IN \/ RunThenable(j, rest)
          \/ RunResume(j, rest)
          \/ RunSettle(j, rest)
          \/ RunContinue(j, rest)
    /\ UNCHANGED notAlertVars

AlertNext ==
    \/ \E m \in Messages, i \in Intents : Show(m, i)
    \/ OnClose
    \/ RunMicrotask

(***************************************************************************)
(* View Host: appState.getActiveCache(), winStates[0] (splitView,          *)
(* getInactiveView, toggleSplitViewMode, setActiveView), ViewState         *)
(* (getVisibleCache, addCache) and the cache (path, status, cd).  Their    *)
(* code is not part of the sources: they are modelled from their use in    *)
(* LeftPanel.tsx and from the View Host interface of the specification.    *)
(* A navigation (cd, addCache) is asynchronous: the call starts it, the    *)
(* pane is busy until it completes, and it completes by showing the target *)
(* or by rejecting the promise the call returned.                          *)
(***************************************************************************)

HostInit ==
    /\ explorerActive = TRUE
    /\ splitView = FALSE
    /\ activeView = 0
    /\ cachePath = [v \in Views |-> "/a"]
    /\ navPending = [v \in Views |-> NoNav]

\* cache.status: 'ok' when no navigation is in progress
CacheStatus(v) == IF navPending[v] = NoNav THEN "ok" ELSE "busy"

\* winState.getInactiveView().viewId
InactiveView == 1 - activeView

\* appState.getActiveCache().path, line 182
ActiveCachePath == cachePath[activeView]

\* winState.toggleSplitViewMode(): splitting activates the second pane,
\* unsplitting goes back to the first one
ToggledActiveView == IF splitView THEN 0 ELSE 1

(***************************************************************************)
(* Navigation Router: LeftPanel.tsx lines 188-219.                         *)
(***************************************************************************)

\* no node was clicked yet
NoClick ==
    [kind |-> "none", path |-> Undefined, wasSplit |-> FALSE, wasActive |-> 0,
     wasReady |-> FALSE, shown |-> "/a", issued |-> FALSE, on |-> 0,
     split |-> FALSE, active |-> 0, navSame |-> TRUE, hostSame |-> TRUE,
     alerted |-> FALSE, inTree |-> FALSE]

\* no click is waiting for its handler
NoPress == [nodeData |-> Undefined, e |-> [altKey |-> FALSE, ctrlKey |-> FALSE],
            on |-> "none"]

RouterInit ==
    /\ pressed = NoPress
    /\ lastClick = NoClick
    /\ alerts = <<>>
    /\ failed = <<>>

\* line 213: !(isMac ? e.altKey : e.ctrlKey)
SameView(e) == ~(IF isMac THEN e.altKey ELSE e.ctrlKey)

\* line 192, the mutant: the readiness status is not looked at
ActiveCacheAny == explorerActive

\* line 192: activeCache && activeCache.status === 'ok'
ActiveCacheReady == explorerActive /\ CacheStatus(activeView) = "ok"

\* line 199, the mutant: the window is taken to be split already
SplitNeverNeeded == FALSE

\* line 199: if (!winState.splitView)
SplitNeeded == ~splitView

\* line 205, the mutant: the pane is navigated whatever it shows
AlwaysNavigates(v, path) == TRUE

\* line 205: viewState.getVisibleCache().path !== path
NeedsNavigation(v, path) == cachePath[v] # path

\* lines 190-208: whether openFavorite calls cd / addCache
NavigationIssued(path, sameView) ==
    IF sameView THEN ActiveCacheReady ELSE NeedsNavigation(InactiveView, path)

\* lines 191, 197: the pane openFavorite works on
TargetView(sameView) == IF sameView THEN activeView ELSE InactiveView

\* line 215: `${err.message} (${err.code})`
ErrorText(err) == err.message \o " (" \o err.code \o ")"

\* lines 188-209, openFavorite(path, sameView); `thrown` is the error the
\* navigation call throws at once, or NoError when it starts the navigation
OpenFavorite(path, sameView, thrown) ==
    /\ IF sameView
       THEN \* lines 191-194
            UNCHANGED <<splitView, activeView>>
       ELSE \* lines 196-203
            IF SplitNeeded
            THEN /\ splitView' = ~splitView
                 /\ activeView' = ToggledActiveView
            ELSE /\ activeView' = InactiveView
                 /\ UNCHANGED splitView
    /\ IF NavigationIssued(path, sameView) /\ thrown = NoError
       THEN \* lines 193, 206: the navigation starts, its promise is dropped
            navPending' = [navPending EXCEPT ![TargetView(sameView)] = path]
       ELSE UNCHANGED navPending
    /\ UNCHANGED <<explorerActive, cachePath>>

\* lines 211-219, onNodeClick(node, _, e): openFavorite returns nothing, so
\* the await of line 213 ends at once and the catch of line 214 sees only
\* what openFavorite throws before it returns
OnNodeClick(nodeData, e, thrown) ==
    LET sameView == SameView(e)
        issued == NavigationIssued(nodeData, sameView)
    IN /\ thrown # NoError => issued /\ Len(failed) < MaxFailures
       /\ OpenFavorite(nodeData, sameView, thrown)
       /\ IF thrown # NoError
          THEN \* lines 214-218
               /\ alerts' = Append(alerts, [message |-> ErrorText(thrown),
                                            intent |-> "danger"])
               /\ failed' = Append(failed, thrown)
          ELSE UNCHANGED <<alerts, failed>>
       /\ lastClick' = [kind |-> IF sameView THEN "same" ELSE "alt",
                        path |-> nodeData,
                        \* what the click found
                        wasSplit |-> splitView,
                        wasActive |-> activeView,
                        wasReady |-> (explorerActive /\ navPending[activeView] = NoNav),
                        inTree |-> (\E g \in DOMAIN nodes :
                                      \E k \in DOMAIN nodes[g].childNodes :
                                         nodes[g].childNodes[k].nodeData = nodeData),
                        shown |-> cachePath[1 - activeView],
                        \* what the click did
                        issued |-> issued,
                        on |-> TargetView(sameView),
                        split |-> splitView',
                        active |-> activeView',
                        navSame |-> (navPending' = navPending),
                        hostSame |-> (hostVars' = hostVars),
                        alerted |-> (alerts' # alerts)]
       /\ UNCHANGED <<isMac, favoritesVars, alertVars>>

\* a navigation in progress completes: the pane shows the target
NavSucceeds(v) ==
    /\ navPending[v] \in Paths
    /\ cachePath' = [cachePath EXCEPT ![v] = navPending[v]]
    /\ navPending' = [navPending EXCEPT ![v] = NoNav]
    /\ UNCHANGED <<explorerActive, splitView, activeView, routerVars, notRouterVars>>

\* a navigation in progress fails: the promise that cd / addCache returned
\* is rejected; nothing holds that promise (lines 193, 206)
NavRejects(v, err) ==
    /\ navPending[v] # NoNav
    /\ Len(failed) < MaxFailures
    /\ navPending' = [navPending EXCEPT ![v] = NoNav]
    /\ failed' = Append(failed, err)
    /\ UNCHANGED <<explorerActive, splitView, activeView, cachePath,
                   isMac, lastClick, alerts, pressed, notRouterVars>>

\* the user splits or unsplits the window from the toolbar
UserTogglesSplit ==
    /\ splitView' = ~splitView
    /\ activeView' = ToggledActiveView
    /\ UNCHANGED <<explorerActive, cachePath, navPending, routerVars, notRouterVars>>

\* the user leaves or returns to the explorer: no active cache outside it
UserSwitchesScreen ==
    /\ explorerActive' = ~explorerActive
    /\ UNCHANGED <<splitView, activeView, cachePath, navPending, routerVars, notRouterVars>>

Events == [altKey : BOOLEAN, ctrlKey : BOOLEAN]

RouterNext ==
    \/ \E nodeData \in Paths \cup {Undefined}, e \in Events,
          thrown \in Errors \cup {NoError} :
             OnNodeClick(nodeData, e, thrown) /\ UNCHANGED <<pressed, treeVars>>
    \/ \E v \in Views : NavSucceeds(v)
    \/ \E v \in Views, err \in Errors : NavRejects(v, err)
    \/ UserTogglesSplit
    \/ UserSwitchesScreen

(***************************************************************************)
(* Favorites Source and localization: favoritesState (three collections),  *)
(* the translation function t of the props, USERNAME and the Icons table.  *)
(* Their code is not part of the sources: a translation is modelled as the *)
(* pair of the language and the key, an icon lookup as the pair of the     *)
(* table and the key, so that what a label or an icon was computed from    *)
(* can be told apart.                                                      *)
(***************************************************************************)

\* t(key) under the language lng
T(lng, key) == lng \o ":" \o key

\* utils/platform USERNAME
USERNAME == "user"

\* constants/icons: Icons[label]
Icons(label) == "Icons." \o label

(***************************************************************************)
(* Tree Synchronizer and Selection Tracker: LeftPanel.tsx lines 35-186 and *)
(* 221-285.  this.state.nodes[0], [1], [2] are nodes[1], nodes[2],         *)
(* nodes[3] here.  The panel is rendered again after every setState, after *)
(* a change of its props and after a change of the active path it observes *)
(* (@observer), as long as it is mounted: render() is part of each of      *)
(* these steps.                                                            *)
(***************************************************************************)

\* lines 49-55, 56-62, 84-90: a group node
GroupNode(id, key, lng) ==
    [id |-> id, hasCaret |-> TRUE, isExpanded |-> TRUE,
     label |-> T(lng, key), childNodes |-> <<>>]

\* lines 47-65: the state the constructor sets
TreeInit ==
    /\ nodes = <<GroupNode(0, "FAVORITES_PANEL.SHORTCUTS", lang),
                 GroupNode(1, "FAVORITES_PANEL.PLACES", lang)>>
    /\ showDistributions = FALSE
    /\ hide = FALSE
    /\ phase = "constructed"

\* lines 233-241: the node of a shortcut
ShortcutNode(shortcut, lng) ==
    [id |-> "s_" \o shortcut.path,
     key |-> "s_" \o shortcut.path,
     label |-> [title |-> shortcut.path,
                text |-> IF shortcut.label = "HOME_DIR"
                         THEN USERNAME
                         ELSE T(lng, "FAVORITES_PANEL." \o shortcut.label)],
     icon |-> Icons(shortcut.label),
     nodeData |-> shortcut.path,
     isSelected |-> FALSE]

\* lines 243-249: the node of a place
PlaceNode(place) ==
    [id |-> "p_" \o place.path,
     key |-> "p_" \o place.path,
     label |-> [title |-> place.path, text |-> place.label],
     icon |-> place.icon,
     nodeData |-> place.path,
     isSelected |-> FALSE]

\* lines 252-258: the node of a distribution
DistributionNode(distrib) ==
    [id |-> "p_" \o distrib.path,
     key |-> "p_" \o distrib.path,
     label |-> [title |-> distrib.path, text |-> distrib.label],
     icon |-> distrib.icon,
     nodeData |-> distrib.path,
     isSelected |-> FALSE]

\* lines 226-269, the mutant: the labels of the groups are not updated
\* (lines 261-266 left out)
BuildNodesKeepLabels(ns) ==
    [g \in DOMAIN ns |->
        IF g = 1
        THEN [ns[g] EXCEPT
                !.childNodes = [k \in DOMAIN shortcuts' |-> ShortcutNode(shortcuts'[k], lang')]]
        ELSE IF g = 2
        THEN [ns[g] EXCEPT
                !.childNodes = [k \in DOMAIN places' |-> PlaceNode(places'[k])]]
        ELSE [ns[g] EXCEPT
                !.childNodes = IF showDistributions
                               THEN [k \in DOMAIN distributions' |->
                                        DistributionNode(distributions'[k])]
                               ELSE @]]

\* lines 226-269, buildNodes(favorites) applied to the groups ns
BuildNodes(ns) ==
    [g \in DOMAIN ns |->
        IF g = 1
        THEN [ns[g] EXCEPT
                !.childNodes = [k \in DOMAIN shortcuts' |-> ShortcutNode(shortcuts'[k], lang')],
                !.label = T(lang', "FAVORITES_PANEL.SHORTCUTS")]
        ELSE IF g = 2
        THEN [ns[g] EXCEPT
                !.childNodes = [k \in DOMAIN places' |-> PlaceNode(places'[k])],
                !.label = T(lang', "FAVORITES_PANEL.PLACES")]
        ELSE [ns[g] EXCEPT
                !.childNodes = IF showDistributions
                               THEN [k \in DOMAIN distributions' |->
                                        DistributionNode(distributions'[k])]
                               ELSE @,
                !.label = T(lang', "FAVORITES_PANEL.LINUX")]]

\* Array.prototype.find on childNodes: the index of the first node with the
\* path, 0 when there is none
FindIndex(children, path) ==
    IF \E k \in DOMAIN children : children[k].nodeData = path
    THEN CHOOSE k \in DOMAIN children :
            /\ children[k].nodeData = path
            /\ \A j \in 1..(k - 1) : children[j].nodeData # path
    ELSE 0

\* lines 148-162, getNodeFromPath(path): <<group, index>> of the node found,
\* <<0, 0>> when none is
GetNodeFromPath(ns, path, withDistributions) ==
    LET s == FindIndex(ns[1].childNodes, path)
        p == FindIndex(ns[2].childNodes, path)
    IN IF s # 0 THEN <<1, s>>
       ELSE IF p # 0 THEN <<2, p>>
       ELSE IF ~withDistributions THEN <<0, 0>>
       ELSE LET d == FindIndex(ns[3].childNodes, path)
            IN IF d # 0 THEN <<3, d>> ELSE <<0, 0>>

\* lines 166-168, the mutant: the previous selection is not cleared
KeepSelection(ns) == ns

\* lines 166-168: every child node of every group is unselected
ClearSelection(ns) ==
    [g \in DOMAIN ns |->
        [ns[g] EXCEPT !.childNodes =
            [k \in DOMAIN ns[g].childNodes |->
                [ns[g].childNodes[k] EXCEPT !.isSelected = FALSE]]]]

\* lines 164-175, setActiveNode(path)
SetActiveNode(ns, path, withDistributions) ==
    LET cleared == ClearSelection(ns)
        found == GetNodeFromPath(cleared, path, withDistributions)
    IN [g \in DOMAIN cleared |->
          [cleared[g] EXCEPT !.childNodes =
              [k \in DOMAIN cleared[g].childNodes |->
                  IF <<g, k>> = found
                  THEN [cleared[g].childNodes[k] EXCEPT !.isSelected = TRUE]
                  ELSE cleared[g].childNodes[k]]]]

\* lines 177-186, getActiveCachePath()
GetActiveCachePath == IF explorerActive THEN ActiveCachePath ELSE ""

\* lines 271-285, render(), run when the panel is mounted: the groups ns
\* after setActiveNode(getActiveCachePath())
Rendered(ns) ==
    IF phase' = "mounted"
    THEN SetActiveNode(ns, GetActiveCachePath', showDistributions')
    ELSE ns

\* the first render pass, right after the constructor
FirstRender ==
    /\ phase = "constructed"
    /\ phase' = "mounted"
    /\ UNCHANGED <<showDistributions, probe, hide>>
    /\ UNCHANGED <<favoritesVars, hostVars>>
    /\ nodes' = Rendered(nodes)
    /\ UNCHANGED <<alertVars, routerVars>>

\* line 79, the mutant: the group is appended whatever hasWSL() answered
ExtraGroupAlways(wsl) == TRUE

\* line 79: if (this.showDistributions)
ExtraGroupWanted(wsl) == wsl

\* lines 76-95, checkForWSL() after `await hasWSL()` resolved with wsl
ProbeResolves(wsl) ==
    /\ probe = "pending"
    /\ phase # "constructed"
    /\ probe' = IF wsl THEN "true" ELSE "false"
    /\ showDistributions' = wsl
    /\ UNCHANGED <<hide, phase, favoritesVars, hostVars>>
    /\ IF ExtraGroupWanted(wsl)
       THEN \* lines 80-92
            nodes' = Rendered(Append(nodes, GroupNode(2, "FAVORITES_PANEL.LINUX", lang)))
       ELSE UNCHANGED nodes
    /\ UNCHANGED <<alertVars, routerVars>>

\* lines 76-78: hasWSL() rejects, the assignment of line 78 never runs
ProbeFails ==
    /\ probe = "pending"
    /\ phase # "constructed"
    /\ probe' = "failed"
    /\ UNCHANGED <<nodes, showDistributions, hide, phase>>
    /\ UNCHANGED <<favoritesVars, hostVars, alertVars, routerVars>>

\* lines 116, 121-139, the mutant: the disposers are never called
ReactionsNeverDisposed == TRUE

\* lines 116, 121-139: the reactions are installed until the panel unmounts
ReactionsInstalled == phase # "unmounted"

\* lines 124, 134: if (!this.props.hide)
ReactionRebuilds == ~hide

\* lines 121-129: favoritesState.places changes; its reaction runs
PlacesChange(new) ==
    /\ phase # "constructed"
    /\ new # places
    /\ places' = new
    /\ UNCHANGED <<shortcuts, distributions, lang>>
    /\ UNCHANGED <<showDistributions, probe, hide, phase, hostVars>>
    /\ IF ReactionsInstalled /\ ReactionRebuilds
       THEN nodes' = Rendered(BuildNodes(nodes))
       ELSE UNCHANGED nodes
    /\ UNCHANGED <<alertVars, routerVars>>

\* lines 131-139: favoritesState.distributions changes; its reaction runs
DistributionsChange(new) ==
    /\ phase # "constructed"
    /\ new # distributions
    /\ distributions' = new
    /\ UNCHANGED <<shortcuts, places, lang>>
    /\ UNCHANGED <<showDistributions, probe, hide, phase, hostVars>>
    /\ IF ReactionsInstalled /\ ReactionRebuilds
       THEN nodes' = Rendered(BuildNodes(nodes))
       ELSE UNCHANGED nodes
    /\ UNCHANGED <<alertVars, routerVars>>

\* favoritesState.shortcuts changes: installReactions (lines 120-140)
\* installs no reaction on it
ShortcutsChange(new) ==
    /\ phase # "constructed"
    /\ new # shortcuts
    /\ shortcuts' = new
    /\ UNCHANGED <<places, distributions, lang>>
    /\ UNCHANGED <<nodes, showDistributions, probe, hide, phase, hostVars>>
    /\ UNCHANGED <<alertVars, routerVars>>

\* lines 97-109: i18next emits languageChanged; the handler is bound until
\* the panel unmounts (line 117)
LanguageChanged(lng) ==
    /\ phase # "constructed"
    /\ lng # lang
    /\ lang' = lng
    /\ UNCHANGED <<shortcuts, places, distributions>>
    /\ UNCHANGED <<showDistributions, probe, hide, phase, hostVars>>
    /\ IF phase = "mounted"
       THEN nodes' = Rendered(BuildNodes(nodes))
       ELSE UNCHANGED nodes
    /\ UNCHANGED <<alertVars, routerVars>>

\* lines 221-224, onNodeToggle(node) for the group g
OnNodeToggle(g) ==
    /\ phase = "mounted"
    /\ g \in DOMAIN nodes
    /\ UNCHANGED <<showDistributions, probe, hide, phase>>
    /\ UNCHANGED <<favoritesVars, hostVars>>
    /\ nodes' = Rendered([nodes EXCEPT ![g].isExpanded = ~@])
    /\ UNCHANGED <<alertVars, routerVars>>

\* the parent shows or hides the panel (props.hide): a render pass
HideChanges ==
    /\ phase = "mounted"
    /\ hide' = ~hide
    /\ UNCHANGED <<showDistributions, probe, phase>>
    /\ UNCHANGED <<favoritesVars, hostVars>>
    /\ nodes' = Rendered(nodes)
    /\ UNCHANGED <<alertVars, routerVars>>

\* the active pane shows another path, or there is no active cache any more
\* (path ""): a render pass of the observer
ActivePathChanges(path) ==
    /\ phase # "constructed"
    /\ path # GetActiveCachePath
    /\ explorerActive' = (path # "")
    /\ cachePath' = IF path = "" THEN cachePath
                    ELSE [cachePath EXCEPT ![activeView] = path]
    /\ UNCHANGED <<splitView, activeView, navPending>>
    /\ UNCHANGED <<showDistributions, probe, hide, phase, favoritesVars>>
    /\ nodes' = Rendered(nodes)
    /\ UNCHANGED <<alertVars, routerVars>>

\* lines 115-118, componentWillUnmount()
Unmount ==
    /\ phase = "mounted"
    /\ phase' = "unmounted"
    /\ UNCHANGED <<nodes, showDistributions, probe, hide>>
    /\ UNCHANGED <<favoritesVars, hostVars, alertVars, routerVars>>

TreeNext ==
    \/ FirstRender
    \/ \E wsl \in BOOLEAN : ProbeResolves(wsl)
    \/ ProbeFails
    \/ \E new \in PlaceLists : PlacesChange(new)
    \/ \E new \in DistributionLists : DistributionsChange(new)
    \/ \E new \in ShortcutLists : ShortcutsChange(new)
    \/ \E lng \in Languages : LanguageChanged(lng)
    \/ \E g \in 1..3 : OnNodeToggle(g)
    \/ HideChanges
    \/ \E path \in Paths \cup {""} : ActivePathChanges(path)
    \/ Unmount

(***************************************************************************)
(* Clicks on the rendered tree: lines 279-284.  The Tree component calls   *)
(* onNodeClick with the node object it was rendered with; between the      *)
(* user's press on a rendered node and the run of the handler a change of  *)
(* the Favorites Source may rebuild the nodes.                             *)
(***************************************************************************)

\* the user presses, with the mouse event e, the k-th child node of the group
\* g of the tree as rendered, or the header of the group (k = 0)
Press(g, k, e) ==
    /\ phase = "mounted"
    /\ ~hide
    /\ pressed = NoPress
    /\ g \in DOMAIN nodes
    /\ k \in 0..Len(nodes[g].childNodes)
    /\ pressed' = [nodeData |-> IF k = 0 THEN Undefined
                                ELSE nodes[g].childNodes[k].nodeData,
                   e |-> e,
                   on |-> IF k = 0 THEN "header" ELSE "node"]
    /\ UNCHANGED <<isMac, lastClick, alerts, failed>>
    /\ UNCHANGED <<alertVars, hostVars, favoritesVars, treeVars>>

\* line 281: onNodeClick runs for the pressed node; the panel observes the
\* active path and renders again
PressedClick ==
    /\ pressed # NoPress
    /\ OnNodeClick(pressed.nodeData, pressed.e, NoError)
    /\ pressed' = NoPress
    /\ UNCHANGED <<showDistributions, probe, hide, phase>>
    /\ nodes' = Rendered(nodes)

PanelNext ==
    \/ FirstRender
    \/ \E new \in PlaceLists : PlacesChange(new)
    \/ \E g \in 1..2, k \in 0..2, e \in Events : Press(g, k, e)
    \/ PressedClick

(***************************************************************************)
(* The specifications: each one runs one component, the others rest.       *)
(***************************************************************************)

\* no favorite, the probe not called (ENV.CY)
FavoritesIdle ==
    /\ shortcuts = <<>>
    /\ places = <<>>
    /\ distributions = <<>>
    /\ lang = "en"
    /\ probe = "notCalled"

\* the Alerter alone: the panel is not in use
AlertStart ==
    AlertInit /\ HostInit /\ RouterInit /\ isMac = FALSE /\ FavoritesIdle /\ TreeInit

AlertSpec == AlertStart /\ [][AlertNext]_vars

\* the user answers every prompt and the event loop runs every queued job
AlertFairSpec ==
    AlertStart /\ [][AlertNext]_vars /\ WF_vars(OnClose) /\ WF_vars(RunMicrotask)

\* the router on either platform
RouterStart ==
    AlertInit /\ HostInit /\ RouterInit /\ isMac \in BOOLEAN /\ FavoritesIdle /\ TreeInit

RouterSpec == RouterStart /\ [][RouterNext]_vars

\* the panel from its construction on: the Favorites Source holds any lists,
\* hasWSL() was called (line 72) unless ENV.CY is set (line 71)
Init ==
    /\ AlertInit /\ HostInit /\ RouterInit /\ isMac = FALSE
    /\ shortcuts \in ShortcutLists
    /\ places \in PlaceLists
    /\ distributions \in DistributionLists
    /\ lang = "en"
    /\ probe \in {"notCalled", "pending"}
    /\ TreeInit

Next == TreeNext

\* the panel, shown, under clicks and changes of the places: the shortcuts
\* and the places hold any lists, the probe is not called
PanelStart ==
    /\ AlertInit /\ HostInit /\ RouterInit /\ isMac = FALSE
    /\ shortcuts \in ShortcutLists
    /\ places \in PlaceLists
    /\ distributions = <<>>
    /\ lang = "en"
    /\ probe = "notCalled"
    /\ TreeInit

PanelSpec == PanelStart /\ [][PanelNext]_vars

Spec == Init /\ [][Next]_vars

(***************************************************************************)
(* The claims about the Alerter.                                           *)
(***************************************************************************)

\* the call has opened its prompt (it created its Deferred)
Opened(c) == callPc[c] \in {"open", "closed", "resolved"}

\* the calls that awaited the prompt of call d
WaitersOf(d) == {c \in Calls : d \in waited[c]}

\* the calls that opened their prompt right after awaiting the prompt of d
TakersOf(d) == {c \in WaitersOf(d) : Opened(c) /\ waitOn[c] = d}

\* C1: at most one prompt is open at any instant (the open prompt is the one
\* of the in-flight Deferred); a call that found a prompt in flight has
\* opened its own only if every prompt it awaited is closed; and once the
\* calls that awaited a closed prompt have all continued, exactly one of
\* them has taken the freed slot and each of the others has awaited the
\* prompt of that one.
C1_OnePromptAtATime ==
    /\ Cardinality({c \in Calls : callPc[c] = "open"}) <= 1
    /\ isOpen <=> (\E c \in Calls : callPc[c] = "open")
    /\ \A c \in Calls : callPc[c] = "open" => defer = c
    /\ \A c \in Calls : Opened(c) => \A d \in waited[c] : Settled(d)
    /\ \A d \in Calls :
          ( /\ Settled(d)
            /\ WaitersOf(d) # {}
            /\ \A c \in WaitersOf(d) : ~(callPc[c] = "waiting" /\ waitOn[c] = d) )
          => \E t \in WaitersOf(d) :
                /\ TakersOf(d) = {t}
                /\ \A c \in WaitersOf(d) \ {t} : t \in waited[c]

\* C1, its case: two calls awaited the same prompt, it was closed, one of
\* them has its prompt open and the other awaits that prompt
C1_Witness ==
    \E d \in Calls, t \in Calls, c \in Calls :
        /\ d \in waited[t] /\ d \in waited[c] /\ t # c
        /\ Settled(d)
        /\ callPc[t] = "open" /\ waitOn[t] = d
        /\ callPc[c] = "waiting" /\ waitOn[c] = t

\* C2, as claimed: of two calls submitted in that order with no prompt closed
\* in between, the later one has opened its prompt only if the promise
\* returned to the caller of the earlier one is fulfilled.
C2_Original ==
    \A a \in Calls, b \in Calls :
        (a < b /\ b <= nCalls /\ epoch[a] = epoch[b] /\ Opened(b))
        => callPc[a] = "resolved"

\* C2, amended: of two calls submitted in that order with no prompt closed in
\* between, the later one has opened its prompt only if the prompt of the
\* earlier one was opened and closed (its Deferred resolved), and the later
\* prompt is closed only after the promise returned to the caller of the
\* earlier one is fulfilled.
C2_SerialOrder ==
    \A a \in Calls, b \in Calls :
        (a < b /\ b <= nCalls /\ epoch[a] = epoch[b])
        => /\ Opened(b) => Settled(a)
           /\ Settled(b) => callPc[a] = "resolved"

\* C2, its case: three calls submitted with no prompt closed in between, the
\* third one's prompt is open
C2_Witness ==
    /\ nCalls >= 3
    /\ epoch[1] = epoch[2] /\ epoch[2] = epoch[3]
    /\ callPc[3] = "open"
    /\ callPc[2] = "closed"
    /\ callPc[1] = "resolved"

\* C3: when the user answers every prompt, every call that was submitted
\* eventually has its own prompt opened and the promise returned to its
\* caller fulfilled.
C3_NoRequestDropped ==
    \A c \in Calls :
        /\ (callPc[c] # "unsubmitted") ~> Opened(c)
        /\ (callPc[c] # "unsubmitted") ~> (callPc[c] = "resolved")

\* C3, its case: a call that had to wait twice has its promise fulfilled
C3_Witness ==
    \E c \in Calls : Cardinality(waited[c]) >= 2 /\ callPc[c] = "resolved"

(***************************************************************************)
(* The claims about the Navigation Router.                                 *)
(***************************************************************************)

\* C4: every navigation call that failed has exactly one prompt submitted to
\* the Confirmation Queue, built from the failure's text and code: the
\* prompts submitted are, in order, those of the failures.
C4_Original ==
    alerts = [k \in 1..Len(failed) |->
                [message |-> ErrorText(failed[k]), intent |-> "danger"]]

\* C8: a same-view activation issues the navigation to the node's path, on the
\* active pane, exactly when there is an active pane and it is ready;
\* otherwise it leaves the View Host as it was and submits no prompt.
C8_SameViewOnlyWhenReady ==
    lastClick.kind = "same" =>
        /\ lastClick.issued <=> lastClick.wasReady
        /\ lastClick.issued => lastClick.on = lastClick.wasActive
        /\ lastClick.split = lastClick.wasSplit
        /\ lastClick.active = lastClick.wasActive
        /\ ~lastClick.issued => lastClick.hostSame /\ ~lastClick.alerted

\* C8, its case: a same-view activation found the active pane not ready
C8_Witness ==
    /\ lastClick.kind = "same"
    /\ lastClick.path \in Paths
    /\ ~lastClick.wasReady
    /\ explorerActive
    /\ lastClick.hostSame

\* C9: an alternate-view activation that found the window not split leaves it
\* split with the second pane, inactive until then, as the active one, and
\* issued the navigation to the node's path, on that pane, exactly when the
\* path that pane showed differs from the node's path.
C9_AltViewSplits ==
    (lastClick.kind = "alt" /\ ~lastClick.wasSplit) =>
        /\ lastClick.split
        /\ lastClick.wasActive = 0
        /\ lastClick.active = 1
        /\ lastClick.issued <=> (lastClick.shown # lastClick.path)
        /\ lastClick.issued => lastClick.on = 1

\* C9, its case: not split, the second pane shows another path than the node
C9_Witness ==
    /\ lastClick.kind = "alt"
    /\ ~lastClick.wasSplit
    /\ lastClick.path = "/b"
    /\ lastClick.shown = "/a"
    /\ lastClick.issued
    /\ splitView /\ activeView = 1 /\ navPending[1] = "/b"

\* C10: an alternate-view activation that found the window split makes the
\* pane that was inactive the active one and leaves the window split; when
\* that pane already showed the node's path it issues no navigation: only
\* the active pane changes.
C10_AltViewActivates ==
    (lastClick.kind = "alt" /\ lastClick.wasSplit) =>
        /\ lastClick.split
        /\ lastClick.active = 1 - lastClick.wasActive
        /\ (lastClick.shown = lastClick.path) =>
               ~lastClick.issued /\ lastClick.navSame /\ ~lastClick.alerted

\* C10, its case: split, the inactive pane already shows the node's path
C10_Witness ==
    /\ lastClick.kind = "alt"
    /\ lastClick.wasSplit
    /\ lastClick.shown = lastClick.path
    /\ ~lastClick.issued
    /\ lastClick.active = 0

(***************************************************************************)
(* The claims about the Tree Synchronizer and the Selection Tracker.       *)
(***************************************************************************)

\* the positions <<group, index>> of the child nodes of the groups ns
ChildrenOf(ns) ==
    UNION {{<<g, k>> : k \in DOMAIN ns[g].childNodes} : g \in DOMAIN ns}

\* the positions of the selected child nodes
SelectedNodes(ns) ==
    {c \in ChildrenOf(ns) : ns[c[1]].childNodes[c[2]].isSelected}

\* the groups ns with exactly the child nodes at the positions S selected
WithSelection(ns, S) ==
    [g \in DOMAIN ns |->
        [ns[g] EXCEPT !.childNodes =
            [k \in DOMAIN ns[g].childNodes |->
                [ns[g].childNodes[k] EXCEPT !.isSelected = (<<g, k>> \in S)]]]]

\* the node sequence a group should hold for the entries s, p, d under the
\* language lng: the mapped image of the entries, in order
MappedImage(g, s, p, d, lng) ==
    IF g = 1 THEN [k \in DOMAIN s |-> ShortcutNode(s[k], lng)]
    ELSE IF g = 2 THEN [k \in DOMAIN p |-> PlaceNode(p[k])]
    ELSE [k \in DOMAIN d |-> DistributionNode(d[k])]

\* the child nodes of the group g of ns, the selection left aside
NodeSequence(ns, g) == ClearSelection(ns)[g].childNodes

\* C5 (as stated): while the panel is mounted, shown or hidden, after a
\* change of the shortcuts, of the places or of the distributions has been
\* handled, the node sequence of the changed group is the mapped image of
\* the group's current entries, in order
C5_Original ==
    [][phase = "mounted" =>
        /\ shortcuts' # shortcuts =>
              NodeSequence(nodes', 1)
                  = MappedImage(1, shortcuts', places', distributions', lang')
        /\ places' # places =>
              NodeSequence(nodes', 2)
                  = MappedImage(2, shortcuts', places', distributions', lang')
        /\ (distributions' # distributions /\ Len(nodes') = 3) =>
              NodeSequence(nodes', 3)
                  = MappedImage(3, shortcuts', places', distributions', lang')]_vars

\* the extra-category group is in the tree
ExtraGroupPresent(ns) == \E g \in DOMAIN ns : ns[g].id = 2

\* C6: in every reachable state the extra-category group is in the tree
\* exactly when the probe has resolved true; it is the third group, after the
\* two fixed ones, and there is one of it at most; once it is in the tree no
\* step removes it
C6_ExtraGroupIffProbeTrue ==
    /\ [](/\ ExtraGroupPresent(nodes) <=> probe = "true"
          /\ Len(nodes) \in {2, 3}
          /\ \A g \in DOMAIN nodes : nodes[g].id = g - 1)
    /\ [][ExtraGroupPresent(nodes) =>
            /\ Len(nodes') = 3
            /\ nodes'[3].id = 2]_vars

\* the extra group is still there after its entries were rebuilt, the
\* language changed and the group was collapsed
C6_Witness ==
    /\ probe = "true"
    /\ Len(nodes) = 3
    /\ nodes[3].id = 2
    /\ nodes[3].childNodes # <<>>
    /\ nodes[3].label = T("fr", "FAVORITES_PANEL.LINUX")
    /\ ~nodes[3].isExpanded
    /\ distributions = <<>>

\* the selections setActiveNode may find: no child node, the ones the last
\* render pass left, or all of them
PriorSelections(ns) == {{}, SelectedNodes(ns), ChildrenOf(ns)}

\* C7: for every path p and whatever child nodes were selected before,
\* setActiveNode(p) leaves no or one child node selected across all the
\* groups, and setActiveNode(p) applied again leaves the tree as it was after
\* the first application; every render pass leaves one selected node at most
C7_SelectionSingleIdempotent ==
    /\ phase = "mounted" => Cardinality(SelectedNodes(nodes)) \in {0, 1}
    /\ \A p \in Paths \cup {""} :
         \A S \in PriorSelections(nodes) :
            LET once == SetActiveNode(WithSelection(nodes, S), p, showDistributions)
                twice == SetActiveNode(once, p, showDistributions)
            IN /\ Cardinality(SelectedNodes(once)) \in {0, 1}
               /\ twice = once

\* the active path is the path of a node in each of the three groups, and
\* the render pass selected the first of them only
C7_Witness ==
    /\ phase = "mounted"
    /\ Len(nodes) = 3
    /\ \A g \in 1..3 :
          \E k \in DOMAIN nodes[g].childNodes :
             nodes[g].childNodes[k].nodeData = GetActiveCachePath
    /\ Cardinality(SelectedNodes(nodes)) = 1
    /\ \E c \in SelectedNodes(nodes) : c[1] = 1

\* C11 (as stated): when hasWSL() settles after componentWillUnmount has
\* run, the result is ignored: the group list of the tree model is left as
\* it was
C11_Original ==
    [][(phase = "unmounted" /\ probe = "pending" /\ probe' # "pending")
          => nodes' = nodes]_vars

\* C12: after componentWillUnmount no change of the shortcuts, of the places
\* or of the distributions and no languageChanged event rebuilds the nodes:
\* the tree model is left as it was
C12_ReleasedAfterUnmount ==
    [][(/\ phase = "unmounted"
        /\ <<shortcuts, places, distributions, lang>>'
              # <<shortcuts, places, distributions, lang>>)
          => nodes' = nodes]_vars

\* the panel was unmounted while shown; since then the language changed and
\* the places and the distributions changed, and the tree still has the
\* labels and the nodes of before
C12_Witness ==
    /\ phase = "unmounted"
    /\ ~hide
    /\ probe = "true"
    /\ lang = "fr"
    /\ \A g \in DOMAIN nodes : nodes[g].label \in {T("en", "FAVORITES_PANEL.SHORTCUTS"),
                                                       T("en", "FAVORITES_PANEL.PLACES"),
                                                       T("en", "FAVORITES_PANEL.LINUX")}
    /\ places = <<Data>>
    /\ NodeSequence(nodes, 2) = MappedImage(2, <<>>, <<Backup, Data>>, <<>>, "en")
    /\ distributions = <<Ubuntu>>
    /\ nodes[3].childNodes = <<>>

\* C13 (as stated): once a true answer of the probe has been handled on the
\* mounted panel, the nodes of the extra-category group are the mapped image
\* of the current distributions, also when these were there before the probe
\* resolved
C13_Original ==
    [][(phase = "mounted" /\ probe = "pending" /\ probe' = "true")
          => /\ Len(nodes') = 3
             /\ NodeSequence(nodes', 3)
                   = MappedImage(3, shortcuts', places', distributions', lang')]_vars

\* C14 (as stated): a rebuild triggered by a change of the places or of the
\* distributions leaves the node sequences of the other groups as they were
C14_Original ==
    [][(phase = "mounted" /\ ~hide) =>
        /\ places' # places =>
              /\ NodeSequence(nodes', 1) = NodeSequence(nodes, 1)
              /\ Len(nodes) = 3 => NodeSequence(nodes', 3) = NodeSequence(nodes, 3)
        /\ distributions' # distributions =>
              /\ NodeSequence(nodes', 1) = NodeSequence(nodes, 1)
              /\ NodeSequence(nodes', 2) = NodeSequence(nodes, 2)]_vars

\* the index of the first entry of the list es with the path, 0 when none
EntryIndex(es, path) ==
    IF \E k \in DOMAIN es : es[k].path = path
    THEN CHOOSE k \in DOMAIN es :
            /\ es[k].path = path
            /\ \A j \in 1..(k - 1) : es[j].path # path
    ELSE 0

\* the position of the node the claim wants selected for the path, given the
\* shortcuts s and the places p: shortcuts first, then places; <<0, 0>> when
\* the path is the path of no entry of the two
EntryPosition(s, p, path) ==
    IF EntryIndex(s, path) # 0 THEN <<1, EntryIndex(s, path)>>
    ELSE IF EntryIndex(p, path) # 0 THEN <<2, EntryIndex(p, path)>>
    ELSE <<0, 0>>

\* the node of the entry at the position is there and is the one selected
\* node of the groups ns
EntrySelected(ns, s, p, path) ==
    LET pos == EntryPosition(s, p, path)
    IN pos # <<0, 0>> =>
          /\ pos[2] \in DOMAIN ns[pos[1]].childNodes
          /\ ns[pos[1]].childNodes[pos[2]].nodeData = path
          /\ SelectedNodes(ns) = {pos}

\* C15 (as stated): after the first render pass and after every render pass
\* that follows a change of the active path, if the active path is the path
\* of an entry of the shortcuts or of the places, the node of that entry
\* (shortcuts first) is selected and no other node is
C15_Original ==
    [][(/\ phase' = "mounted"
        /\ \/ phase = "constructed"
           \/ GetActiveCachePath' # GetActiveCachePath)
          => EntrySelected(nodes', shortcuts', places', GetActiveCachePath')]_vars

(***************************************************************************)
(* The claims about clicks on the tree.                                    *)
(***************************************************************************)

\* C16 (as stated): a click handled for a node whose path is in the tree no
\* more is a no-op: the View Host is left as it was (no navigation, no split
\* toggle, no pane activation) and no prompt is submitted
C16_Original ==
    (lastClick.kind # "none" /\ lastClick.path \in Paths /\ ~lastClick.inTree)
        => lastClick.hostSame /\ ~lastClick.alerted

\* C20 (as stated): a click on the header of a group, which has no nodeData,
\* with or without the modifier key, leaves the View Host as it was: no
\* navigation, no split toggle, no pane activation
C20_Original ==
    (lastClick.kind # "none" /\ lastClick.path = Undefined) => lastClick.hostSame

(***************************************************************************)
(* The claims about languages and identities.                              *)
(***************************************************************************)

\* the translation key of the header of the group g
GroupKey(g) ==
    IF g = 1 THEN "FAVORITES_PANEL.SHORTCUTS"
    ELSE IF g = 2 THEN "FAVORITES_PANEL.PLACES"
    ELSE "FAVORITES_PANEL.LINUX"

\* C17: after a languageChanged event on the mounted panel, shown or hidden,
\* the header label of every group of the tree is the translation under the
\* new language, and the node sequence of every group is the mapped image,
\* under the new language, of the group's current entries (so every shortcut
\* label is translated anew)
C17_LanguageRebuildsAll ==
    [][(phase = "mounted" /\ lang' # lang) =>
          \A g \in DOMAIN nodes' :
             /\ nodes'[g].label = T(lang', GroupKey(g))
             /\ NodeSequence(nodes', g)
                   = MappedImage(g, shortcuts', places', distributions', lang')]_vars

\* the hidden panel with its three groups after a change to French: the
\* headers and the label of the documents shortcut are the French ones, and
\* the nodes of the places group are those of the current places
C17_Witness ==
    /\ phase = "mounted"
    /\ hide
    /\ lang = "fr"
    /\ Len(nodes) = 3
    /\ \A g \in 1..3 : nodes[g].label = T("fr", GroupKey(g))
    /\ Len(nodes[1].childNodes) = 2
    /\ nodes[1].childNodes[2].label.text = T("fr", "FAVORITES_PANEL.DOCS_DIR")
    /\ nodes[1].childNodes[1].label.text = USERNAME
    /\ places = <<Backup, Data>>
    /\ NodeSequence(nodes, 2) = MappedImage(2, shortcuts, places, distributions, lang)
    /\ nodes[3].childNodes # <<>>

\* C18 (as stated): in every reachable tree no two child nodes have the same
\* identity; a places node and a distributions node built from entries with
\* the same path have different identities
C18_Original ==
    \A c1 \in ChildrenOf(nodes), c2 \in ChildrenOf(nodes) :
        c1 # c2 => nodes[c1[1]].childNodes[c1[2]].id # nodes[c2[1]].childNodes[c2[2]].id

(***************************************************************************)
(* The claim about the options of a prompt.                                *)
(***************************************************************************)

\* C19 (as stated): whenever a prompt is open it displays the message and
\* the options of the show() call it serves: an intent is in effect exactly
\* when the options of that call set it, and it is the one they set
C19_Original ==
    (isOpen /\ defer # NoCall) =>
        /\ stMessage = callArgs[defer].message
        /\ stIntent = IF callArgs[defer].intent = Absent
                      THEN "unset"
                      ELSE callArgs[defer].intent

====
